---- MODULE Spec2Model ----
(***************************************************************************)
(* A model of the cascii terminal player (src/src/main.rs): loading the    *)
(* frame files of a directory (load_frames, collect_frame_paths,           *)
(* normalize_frame_text) and the playback loop (main, run_player) around   *)
(* the AnimationController of cascii_core_view.                            *)
(*                                                                         *)
(* File names and file contents are sequences of byte values (ASCII        *)
(* codes), so that extension matching, prefix tests, numeric suffixes and  *)
(* lexicographic order are computed the way the code computes them.        *)
(***************************************************************************)
EXTENDS Integers, Sequences, FiniteSets, TLC

VARIABLES
    directory,     \* the frame directory given on the command line
    frames,        \* Vec<Frame> returned by load_frames
    err,           \* the error main returns, "none" while there is none
    pc,            \* where the program is: main, start, render, poll, tick, exit, failed
    controller,    \* the AnimationController
    needs_redraw,  \* run_player's needs_redraw
    elapsed,       \* last_tick.elapsed() in ms, saturated at ElapsedCap
    pending,       \* terminal events that arrived and are not read yet
    rendered,      \* what the last render_frame call drew
    last_event,    \* the event this loop iteration read ("none", "timeout" or a key)
    ticked         \* the tick attempt of the last loop iteration

vars == <<directory, frames, err, pc, controller, needs_redraw, elapsed,
          pending, rendered, last_event, ticked>>

-----------------------------------------------------------------------------
(* Bounds of the model. *)

\* The fps keys are taken at fps up to this value.
MaxFps == 2

\* An --fps above 1000, where interval_ms() is 0.
HighFps == 1001

\* Largest number of frame files in the directories the player is run on.
MaxFrames == 3

\* Most terminal events waiting unread at once.
MaxQueue == 2

\* Most entries in the directories load_frames is checked on.
MaxEntries == 3

\* last_tick.elapsed() is only ever compared with interval_ms() <= 1000, so
\* it is tracked up to this value and saturates there.
ElapsedCap == 1000

-----------------------------------------------------------------------------
(* Byte strings. *)

Min(a, b) == IF a < b THEN a ELSE b

Max(a, b) == IF a > b THEN a ELSE b

IsDigit(c) == c >= 48 /\ c <= 57

ToAsciiLower(c) == IF c >= 65 /\ c <= 90 THEN c + 32 ELSE c

\* str::eq_ignore_ascii_case
EqIgnoreAsciiCase(a, b) ==
    /\ Len(a) = Len(b)
    /\ \A i \in 1..Len(a) : ToAsciiLower(a[i]) = ToAsciiLower(b[i])

\* str::starts_with
StartsWith(s, p) == Len(s) >= Len(p) /\ SubSeq(s, 1, Len(p)) = p

\* str::ends_with
EndsWith(s, p) == Len(s) >= Len(p) /\ SubSeq(s, Len(s) - Len(p) + 1, Len(s)) = p

\* Ord for String: bytewise lexicographic order.
StrLess(a, b) ==
    \E i \in 1..(Min(Len(a), Len(b)) + 1) :
        /\ \A j \in 1..(i - 1) : a[j] = b[j]
        /\ \/ i > Len(a) /\ i <= Len(b)
           \/ i <= Len(a) /\ i <= Len(b) /\ a[i] < b[i]

\* Position of the last '.' of a file name, 0 when there is none.
LastDot(name) ==
    LET dots == {i \in 1..Len(name) : name[i] = 46}
    IN IF dots = {} THEN 0 ELSE CHOOSE i \in dots : \A j \in dots : j <= i

\* Path::extension is Some: the name has a '.' that is not its first byte
\* (and the name is not "..").
HasExtension(name) == LastDot(name) > 1 /\ name # <<46, 46>>

\* Path::extension
Extension(name) == SubSeq(name, LastDot(name) + 1, Len(name))

\* Path::file_stem
FileStem(name) ==
    IF HasExtension(name) THEN SubSeq(name, 1, LastDot(name) - 1) ELSE name

\* Path::with_extension("cframe")
WithExtensionCframe(name) == FileStem(name) \o <<46, 99, 102, 114, 97, 109, 101>>

ExtCframe == <<99, 102, 114, 97, 109, 101>>

ExtTxt == <<116, 120, 116>>

FramePrefix == <<102, 114, 97, 109, 101, 95>>

-----------------------------------------------------------------------------
(* cascii_core_view: FrameFile::extract_index, parse_cframe,               *)
(* parse_cframe_text, Frame.                                               *)

\* The run of decimal digits a stem ends with.
TrailingDigits(stem) ==
    LET n == Len(stem)
        k == CHOOSE k \in 0..n :
                /\ \A j \in (n - k + 1)..n : IsDigit(stem[j])
                /\ k = n \/ ~IsDigit(stem[n - k])
    IN SubSeq(stem, n - k + 1, n)

RECURSIVE DecimalValue(_)
DecimalValue(ds) ==
    IF ds = <<>> THEN 0
    ELSE DecimalValue(SubSeq(ds, 1, Len(ds) - 1)) * 10 + (ds[Len(ds)] - 48)

extract_index(stem, fallback) ==
    IF TrailingDigits(stem) = <<>> THEN fallback
    ELSE DecimalValue(TrailingDigits(stem))

\* A cframe buffer is <<width, height>> followed by width * height cells of
\* two bytes each: the character and its colour.
CframeWellFormed(data) ==
    /\ Len(data) >= 2
    /\ data[1] > 0
    /\ data[2] > 0
    /\ Len(data) = 2 + 2 * data[1] * data[2]

\* parse_cframe: the colour grid, <<>> for a FormatError.
parse_cframe(data) ==
    IF ~CframeWellFormed(data) THEN <<>>
    ELSE <<[width  |-> data[1],
            height |-> data[2],
            chars  |-> [i \in 1..(data[1] * data[2]) |-> data[2 * i + 1]],
            colors |-> [i \in 1..(data[1] * data[2]) |-> data[2 * i + 2]]]>>

RECURSIVE GridText(_, _, _)
GridText(chars, width, row) ==
    IF row * width > Len(chars) THEN <<>>
    ELSE SubSeq(chars, (row - 1) * width + 1, row * width) \o <<10>>
         \o GridText(chars, width, row + 1)

\* parse_cframe_text: the rows of characters, each ended by a newline;
\* only called here on buffers parse_cframe accepted.
parse_cframe_text(data) ==
    GridText([i \in 1..(data[1] * data[2]) |-> data[2 * i + 1]], data[1], 1)

\* Frame::with_color
FrameWithColor(text, cframe) == [content |-> text, cframe |-> cframe]

\* Frame::text_only
FrameTextOnly(text) == [content |-> text, cframe |-> <<>>]

-----------------------------------------------------------------------------
(* The file system. A directory is [exists, entries]; entries is the       *)
(* sequence fs::read_dir yields, in the order it yields it; an entry is    *)
(* [name, kind, readable, data] with kind "file", "dir" or "fifo".         *)

Entry(name, kind, readable, data) ==
    [name |-> name, kind |-> kind, readable |-> readable, data |-> data]

\* Path::is_file
IsFile(e) == e.kind = "file"

\* Path::exists on a name of the directory
Exists(dir, name) == \E i \in 1..Len(dir.entries) : dir.entries[i].name = name

Lookup(dir, name) ==
    dir.entries[CHOOSE i \in 1..Len(dir.entries) : dir.entries[i].name = name]

\* fs::read succeeds
CanRead(e) == e.kind # "dir" /\ e.readable

\* fs::read_to_string succeeds: readable and UTF-8 (the contents used here
\* are ASCII bytes, or hold the byte 255 that no UTF-8 text holds).
CanReadToString(e) == CanRead(e) /\ \A i \in 1..Len(e.data) : e.data[i] < 128

-----------------------------------------------------------------------------
(* collect_frame_paths, normalize_frame_text, load_frames. *)

\* Whether collect_frame_paths keeps a directory entry.
KeepsEntry(e, extension, require_frame_prefix) ==
    /\ IsFile(e)
    /\ HasExtension(e.name)
    /\ EqIgnoreAsciiCase(Extension(e.name), extension)
    /\ require_frame_prefix => StartsWith(e.name, FramePrefix)

\* The (index, name) pairs of the kept entries from position i on, in
\* read_dir order; the fallback index of an entry is its position, from 0.
RECURSIVE Indexed(_, _, _, _)
Indexed(entries, i, extension, require_frame_prefix) ==
    IF i > Len(entries) THEN <<>>
    ELSE LET e == entries[i]
             rest == Indexed(entries, i + 1, extension, require_frame_prefix)
         IN IF KeepsEntry(e, extension, require_frame_prefix)
            THEN <<[index |-> extract_index(FileStem(e.name), i - 1),
                    name  |-> e.name]>> \o rest
            ELSE rest

\* The comparator ordering by name alone.
KeyLessByName(a, b) == StrLess(a.name, b.name)

\* The comparator of indexed.sort_by: by index, then by name.
KeyLess(a, b) ==
    \/ a.index < b.index
    \/ a.index = b.index /\ StrLess(a.name, b.name)

RECURSIVE InsertSorted(_, _)
InsertSorted(x, s) ==
    IF s = <<>> THEN <<x>>
    ELSE IF KeyLess(x, Head(s)) THEN <<x>> \o s
    ELSE <<Head(s)>> \o InsertSorted(x, Tail(s))

\* slice::sort_by (stable): each element goes after the ones not greater.
RECURSIVE SortIndexed(_)
SortIndexed(s) ==
    IF s = <<>> THEN <<>>
    ELSE InsertSorted(s[Len(s)], SortIndexed(SubSeq(s, 1, Len(s) - 1)))

\* collect_frame_paths: [ok, err, paths], paths being file names.
collect_frame_paths(dir, extension, require_frame_prefix) ==
    IF ~dir.exists
    THEN [ok |-> FALSE, err |-> "Io", paths |-> <<>>]
    ELSE LET sorted == SortIndexed(Indexed(dir.entries, 1, extension,
                                           require_frame_prefix))
         IN [ok |-> TRUE, err |-> "none",
             paths |-> [i \in 1..Len(sorted) |-> sorted[i].name]]

normalize_frame_text(text) ==
    IF ~EndsWith(text, <<10>>) THEN Append(text, 10) ELSE text

LoadFailed(kind) == [ok |-> FALSE, err |-> kind, frames |-> <<>>]

\* The frame of a .cframe file: text and color grid both decoded from it.
CframeFrame(data) == FrameWithColor(parse_cframe_text(data), parse_cframe(data))

\* The loop over cframe_paths passing over the files it cannot read or
\* decode.
RECURSIVE LoadCframesSkipsFailures(_, _, _)
LoadCframesSkipsFailures(dir, paths, acc) ==
    IF paths = <<>> THEN [ok |-> TRUE, err |-> "none", frames |-> acc]
    ELSE LET e == Lookup(dir, Head(paths))
         IN IF ~CanRead(e) \/ parse_cframe(e.data) = <<>>
            THEN LoadCframesSkipsFailures(dir, Tail(paths), acc)
            ELSE LoadCframesSkipsFailures(dir, Tail(paths),
                     Append(acc, CframeFrame(e.data)))

\* The loop over cframe_paths: the first failure ends the load.
RECURSIVE LoadCframes(_, _, _)
LoadCframes(dir, paths, acc) ==
    IF paths = <<>> THEN [ok |-> TRUE, err |-> "none", frames |-> acc]
    ELSE LET e == Lookup(dir, Head(paths))
         IN IF ~CanRead(e) THEN LoadFailed("Io")
            ELSE IF parse_cframe(e.data) = <<>> THEN LoadFailed("Format")
            ELSE LoadCframes(dir, Tail(paths), Append(acc, CframeFrame(e.data)))

\* The frame of a text file with a sibling .cframe, its text taken from
\* the sibling as well.
PairedFrameTextFromCframe(content, data) == CframeFrame(data)

\* The frame of a text file with a sibling .cframe: the text file's content
\* with the sibling's color grid.
PairedFrame(content, data) == FrameWithColor(content, parse_cframe(data))

\* The loop over txt_paths.
RECURSIVE LoadTxts(_, _, _)
LoadTxts(dir, paths, acc) ==
    IF paths = <<>> THEN [ok |-> TRUE, err |-> "none", frames |-> acc]
    ELSE LET e == Lookup(dir, Head(paths))
             content == normalize_frame_text(e.data)
             cframe_path == WithExtensionCframe(e.name)
         IN IF ~CanReadToString(e) THEN LoadFailed("Io")
            ELSE IF Exists(dir, cframe_path)
            THEN LET c == Lookup(dir, cframe_path)
                 IN IF ~CanRead(c) THEN LoadFailed("Io")
                    ELSE IF parse_cframe(c.data) = <<>> THEN LoadFailed("Format")
                    ELSE LoadTxts(dir, Tail(paths),
                             Append(acc, PairedFrame(content, c.data)))
            ELSE LoadTxts(dir, Tail(paths), Append(acc, FrameTextOnly(content)))

\* load_frames without its bail on an empty txt_paths.
load_frames_no_bail(dir) ==
    LET cframe_paths == collect_frame_paths(dir, ExtCframe, FALSE)
        txt_paths == collect_frame_paths(dir, ExtTxt, TRUE)
    IN IF ~cframe_paths.ok THEN LoadFailed(cframe_paths.err)
       ELSE IF cframe_paths.paths # <<>>
       THEN LoadCframes(dir, cframe_paths.paths, <<>>)
       ELSE IF ~txt_paths.ok THEN LoadFailed(txt_paths.err)
       ELSE LoadTxts(dir, txt_paths.paths, <<>>)

\* load_frames adding the text files' frames after the binary ones.
load_frames_with_txt(dir) ==
    LET cframe_paths == collect_frame_paths(dir, ExtCframe, FALSE)
        txt_paths == collect_frame_paths(dir, ExtTxt, TRUE)
        bin == LoadCframes(dir, cframe_paths.paths, <<>>)
        txt == LoadTxts(dir, txt_paths.paths, <<>>)
    IN IF ~cframe_paths.ok THEN LoadFailed(cframe_paths.err)
       ELSE IF cframe_paths.paths # <<>>
       THEN IF ~bin.ok THEN bin
            ELSE IF ~txt.ok THEN txt
            ELSE [ok |-> TRUE, err |-> "none", frames |-> bin.frames \o txt.frames]
       ELSE IF txt_paths.paths = <<>> THEN LoadFailed("NoFrames")
       ELSE txt

\* load_frames: [ok, err, frames].
load_frames(dir) ==
    LET cframe_paths == collect_frame_paths(dir, ExtCframe, FALSE)
        txt_paths == collect_frame_paths(dir, ExtTxt, TRUE)
    IN IF ~cframe_paths.ok THEN LoadFailed(cframe_paths.err)
       ELSE IF cframe_paths.paths # <<>>
       THEN LoadCframes(dir, cframe_paths.paths, <<>>)
       ELSE IF ~txt_paths.ok THEN LoadFailed(txt_paths.err)
       ELSE IF txt_paths.paths = <<>> THEN LoadFailed("NoFrames")
       ELSE LoadTxts(dir, txt_paths.paths, <<>>)

-----------------------------------------------------------------------------
(* cascii_core_view: AnimationController. A controller is the record       *)
(* [fps, frame_count, current_frame, state, loop_mode].                    *)

\* AnimationController::new
controller_new(fps) ==
    [fps |-> Max(fps, 1), frame_count |-> 0, current_frame |-> 0,
     state |-> "Paused", loop_mode |-> "Loop"]

set_frame_count(c, n) ==
    [c EXCEPT !.frame_count = n,
              !.current_frame = IF n = 0 THEN 0 ELSE Min(c.current_frame, n - 1)]

set_loop_mode(c, m) == [c EXCEPT !.loop_mode = m]

\* set_fps without its floor of 1.
set_fps_unclamped(c, v) == [c EXCEPT !.fps = v]

set_fps(c, v) == [c EXCEPT !.fps = Max(v, 1)]

interval_ms(c) == 1000 \div c.fps

is_playing(c) == c.state = "Playing"

\* What leaving Finished does to the index is left open: it stays, or it
\* goes back to the first frame.
Resumed(c) ==
    IF c.state = "Finished"
    THEN {[c EXCEPT !.state = "Playing"],
          [c EXCEPT !.state = "Playing", !.current_frame = 0]}
    ELSE {[c EXCEPT !.state = "Playing"]}

\* play: the set of controllers it may leave.
play(c) == Resumed(c)

\* toggle: the set of controllers it may leave.
toggle(c) ==
    IF c.state = "Playing" THEN {[c EXCEPT !.state = "Paused"]} ELSE Resumed(c)

step_forward(c) ==
    [c EXCEPT !.current_frame = Min(c.current_frame + 1, Max(c.frame_count - 1, 0))]

step_backward(c) ==
    [c EXCEPT !.current_frame = Max(c.current_frame - 1, 0)]

set_current_frame(c, i) ==
    [c EXCEPT !.current_frame = Max(Min(i, c.frame_count - 1), 0)]

\* tick: [ctl, changed], the controller after it and the value it returns.
tick(c) ==
    IF c.state # "Playing" \/ c.frame_count = 0
    THEN [ctl |-> c, changed |-> FALSE]
    ELSE IF c.current_frame + 1 < c.frame_count
    THEN [ctl |-> [c EXCEPT !.current_frame = c.current_frame + 1], changed |-> TRUE]
    ELSE IF c.loop_mode = "Loop"
    THEN [ctl |-> [c EXCEPT !.current_frame = 0], changed |-> c.current_frame # 0]
    ELSE [ctl |-> [c EXCEPT !.state = "Finished"], changed |-> FALSE]

-----------------------------------------------------------------------------
(* The directories and command lines the program is run on. *)

\* frame_<i>.cframe, a 1 x 1 grid.
BinEntry(i) ==
    Entry(FramePrefix \o <<48 + i, 46>> \o ExtCframe, "file", TRUE, <<1, 1, 64 + i, i>>)

\* Directories of 0..MaxFrames well-formed .cframe files.
PlayerDirs ==
    {[exists |-> TRUE, entries |-> [i \in 1..n |-> BinEntry(i)]] : n \in 0..MaxFrames}

\* Values of --fps (a u32, 24 by default).
ArgFps == (0..MaxFps) \cup {HighFps}

\* The directory entries load_frames is checked on.
FileUniverse ==
    { BinEntry(1),                                                \* frame_1.cframe
      BinEntry(2),                                                \* frame_2.cframe
      Entry(FramePrefix \o <<49, 48, 46>> \o ExtCframe, "file", TRUE,
            <<1, 2, 88, 7, 89, 8>>),                              \* frame_10.cframe
      Entry(FramePrefix \o <<49, 46>> \o ExtCframe, "dir", TRUE, <<>>),
                                                    \* frame_1.cframe, a directory
      Entry(FramePrefix \o <<50, 46>> \o ExtCframe, "fifo", TRUE, <<1, 1, 70, 9>>),
                                                    \* frame_2.cframe, a named pipe
      Entry(FramePrefix \o <<53, 46>> \o ExtCframe, "file", FALSE, <<1, 1, 69, 5>>),
                                                    \* frame_5.cframe, unreadable
      Entry(<<98, 97, 100, 46>> \o ExtCframe, "file", TRUE, <<1, 1, 65>>),
                                                    \* bad.cframe, truncated
      Entry(<<97, 46>> \o ExtCframe, "file", TRUE, <<1, 1, 97, 1>>),   \* a.cframe
      Entry(<<98, 46>> \o ExtCframe, "file", TRUE, <<1, 1, 98, 2>>),   \* b.cframe
      Entry(<<70, 82, 65, 77, 69, 95, 52, 46, 67, 70, 82, 65, 77, 69>>, "file", TRUE,
            <<1, 1, 68, 4>>),                                     \* FRAME_4.CFRAME
      Entry(<<46>> \o ExtCframe, "file", TRUE, <<1, 1, 72, 3>>),  \* .cframe
      Entry(FramePrefix \o <<49, 46>> \o ExtTxt, "file", TRUE, <<72, 105>>),
                                                    \* frame_1.txt, no final newline
      Entry(FramePrefix \o <<50, 46>> \o ExtTxt, "file", TRUE, <<72, 10>>),
                                                    \* frame_2.txt
      Entry(FramePrefix \o <<51, 46>> \o ExtTxt, "file", TRUE, <<255>>),
                                                    \* frame_3.txt, not UTF-8
      Entry(<<70, 114, 97, 109, 101, 95, 54, 46>> \o ExtTxt, "file", TRUE, <<66, 10>>),
                                                    \* Frame_6.txt
      Entry(<<110, 111, 116, 101, 115, 46>> \o ExtTxt, "file", TRUE, <<110, 10>>),
                                                    \* notes.txt
      Entry(FramePrefix \o <<56, 46>> \o ExtTxt, "file", TRUE, <<72, 10, 10>>),
                                                    \* frame_8.txt, a blank last line
      Entry(FramePrefix \o <<55>>, "file", TRUE, <<67, 10>>) }    \* frame_7

\* The ways read_dir can yield n entries of distinct names.
Listings(n) ==
    {s \in [1..n -> FileUniverse] :
        \A i, j \in 1..n : i # j => s[i].name # s[j].name}

LoadDirs ==
    {[exists |-> FALSE, entries |-> <<>>]}
    \cup {[exists |-> TRUE, entries |-> s] : s \in UNION {Listings(n) : n \in 0..MaxEntries}}

-----------------------------------------------------------------------------
(* main and run_player. *)

Unset == controller_new(0)

NoTick == [result |-> "none", from |-> 0, waited |-> 0]

\* What render_frame and draw_status_line show of the controller.
Status(c) ==
    [current_frame |-> c.current_frame, state |-> c.state,
     fps |-> c.fps, loop_mode |-> c.loop_mode]

Init ==
    /\ directory \in PlayerDirs
    /\ frames = <<>>
    /\ err = "none"
    /\ pc = "main"
    /\ controller = Unset
    /\ needs_redraw = FALSE
    /\ elapsed = 0
    /\ pending = <<>>
    /\ rendered = <<>>
    /\ last_event = "none"
    /\ ticked = NoTick

\* main: let frames = load_frames(&args.directory)?
LoadFrames ==
    /\ pc = "main"
    /\ LET r == load_frames(directory)
       IN IF r.ok
          THEN frames' = r.frames /\ pc' = "start" /\ err' = err
          ELSE frames' = frames /\ pc' = "failed" /\ err' = r.err
    /\ UNCHANGED <<directory, controller, needs_redraw, elapsed, pending,
                   rendered, last_event, ticked>>

\* main giving the controller one frame too many.
MainFrameCountOffByOne(fs) == Len(fs) + 1

\* The frame count main gives the controller.
MainFrameCount(fs) == Len(fs)

\* main: the controllers it may hand to run_player.
MainController(fps, once, fs) ==
    LET c0 == set_frame_count(controller_new(fps), MainFrameCount(fs))
        c1 == IF once THEN set_loop_mode(c0, "Once") ELSE c0
    IN play(c1)

\* main after load_frames, and run_player up to its loop.
StartPlayer ==
    /\ pc = "start"
    /\ \E fps \in ArgFps, once \in BOOLEAN :
         \E c \in MainController(fps, once, frames) :
            IF frames = <<>>
            THEN /\ pc' = "failed"
                 /\ err' = "NoFramesToDisplay"
                 /\ UNCHANGED <<controller, needs_redraw>>
            ELSE /\ pc' = "render"
                 /\ err' = err
                 /\ controller' = c
                 /\ needs_redraw' = TRUE
    /\ elapsed' = 0
    /\ UNCHANGED <<directory, frames, pending, rendered, last_event, ticked>>

\* run_player: TerminalGuard::enter()? failing (raw mode or the alternate
\* screen refused).
EnterFails ==
    /\ pc = "start"
    /\ frames # <<>>
    /\ pc' = "failed"
    /\ err' = "Terminal"
    /\ UNCHANGED <<directory, frames, controller, needs_redraw, elapsed, pending,
                   rendered, last_event, ticked>>

\* The loop returning the error of a terminal call: render_frame or flush
\* when a redraw is due, event::poll or event::read.
TerminalError ==
    /\ \/ pc = "render" /\ needs_redraw
       \/ pc = "poll"
    /\ pc' = "failed"
    /\ err' = "Terminal"
    /\ UNCHANGED <<directory, frames, controller, needs_redraw, elapsed, pending,
                   rendered, last_event, ticked>>

\* How long a render_frame call and its flush may take: no time to speak
\* of, or a stall (a slow or suspended terminal).
RenderMs == {0, ElapsedCap}

\* The top of the loop: draw when needs_redraw is set.
Render ==
    /\ pc = "render"
    /\ IF needs_redraw
       THEN IF controller.current_frame >= Len(frames)
            THEN /\ pc' = "failed"
                 /\ err' = "IndexOutOfBounds"
                 /\ UNCHANGED <<needs_redraw, elapsed, rendered>>
            ELSE /\ pc' = "poll"
                 /\ err' = err
                 /\ rendered' = <<Status(controller)>>
                 /\ needs_redraw' = FALSE
                 /\ \E d \in RenderMs : elapsed' = Min(elapsed + d, ElapsedCap)
       ELSE /\ pc' = "poll"
            /\ UNCHANGED <<err, needs_redraw, elapsed, rendered>>
    /\ last_event' = "none"
    /\ ticked' = NoTick
    /\ UNCHANGED <<directory, frames, controller, pending>>

\* The tick check without the wait for the frame interval.
TickDueNoWait(c, el) == is_playing(c)

\* The tick check without its test of is_playing.
TickDueInAnyState(c, el) == el >= interval_ms(c)

\* The tick check: playing, and the frame interval has elapsed.
TickDue(c, el) == is_playing(c) /\ el >= interval_ms(c)

\* A terminal event arrives while the loop is not reading. It is recorded
\* with whether it arrived before the deadline of the next tick.
Arrive ==
    /\ pc \in {"render", "poll", "tick"}
    /\ Len(pending) < MaxQueue
    /\ pending' = Append(pending, ~TickDue(controller, elapsed))
    /\ UNCHANGED <<directory, frames, err, pc, controller, needs_redraw,
                   elapsed, rendered, last_event, ticked>>

wait_timeout ==
    IF is_playing(controller)
    THEN Max(interval_ms(controller) - elapsed, 0)
    ELSE 250

\* After how long event::poll may return true: at once when an event is
\* waiting, else when one arrives just before the timeout.
PollDelays ==
    IF pending # <<>> THEN {0}
    ELSE {d \in {wait_timeout - 1} : d >= 0}

Unread == IF pending # <<>> THEN Tail(pending) ELSE pending

\* event::poll timed out.
PollTimeout ==
    /\ pc = "poll"
    /\ pending = <<>>
    /\ elapsed' = Min(elapsed + wait_timeout, ElapsedCap)
    /\ last_event' = "timeout"
    /\ pc' = "tick"
    /\ UNCHANGED <<directory, frames, err, controller, needs_redraw, pending,
                   rendered, ticked>>

\* event::poll returned true after d ms and event::read gave `key`, whose
\* arm left controller c; resets: the arm set last_tick = Instant::now().
Handled(key, d, c, resets, redraw, next) ==
    /\ last_event' = key
    /\ controller' = c
    /\ elapsed' = IF resets THEN 0 ELSE Min(elapsed + d, ElapsedCap)
    /\ pending' = IF resets THEN [i \in 1..Len(Unread) |-> TRUE] ELSE Unread
    /\ needs_redraw' = (needs_redraw \/ redraw)
    /\ pc' = next
    /\ UNCHANGED <<directory, frames, err, rendered, ticked>>

\* The space key bound to play instead of toggle.
OnSpacePlays(c) == play(c)

OnSpace(c) == toggle(c)

OnRight(c) == step_forward(c)

\* The left key bound to step_forward.
OnLeftForward(c) == step_forward(c)

OnLeft(c) == step_backward(c)

OnHome(c) == set_current_frame(c, 0)

OnEnd(c) == set_current_frame(c, Max(c.frame_count - 1, 0))

OnPlus(c) == set_fps(c, c.fps + 1)

OnMinus(c) == set_fps(c, Max(c.fps - 1, 0))

\* The l key also sending playback back to the first frame.
OnLRestarts(c) ==
    set_current_frame(set_loop_mode(c, IF c.loop_mode = "Loop" THEN "Once" ELSE "Loop"), 0)

OnL(c) == set_loop_mode(c, IF c.loop_mode = "Loop" THEN "Once" ELSE "Loop")

EventResize ==
    /\ pc = "poll"
    /\ \E d \in PollDelays : Handled("Resize", d, controller, FALSE, TRUE, "tick")

\* A key release: continue, back to the top of the loop.
KeyRelease ==
    /\ pc = "poll"
    /\ \E d \in PollDelays : Handled("Release", d, controller, FALSE, FALSE, "render")

\* q or Esc: break.
KeyQuit ==
    /\ pc = "poll"
    /\ \E d \in PollDelays : Handled("Quit", d, controller, FALSE, FALSE, "exit")

KeySpace ==
    /\ pc = "poll"
    /\ \E d \in PollDelays : \E c \in OnSpace(controller) :
          Handled("Space", d, c, TRUE, TRUE, "tick")

KeyRight ==
    /\ pc = "poll"
    /\ \E d \in PollDelays : Handled("Right", d, OnRight(controller), FALSE, TRUE, "tick")

KeyLeft ==
    /\ pc = "poll"
    /\ \E d \in PollDelays : Handled("Left", d, OnLeft(controller), FALSE, TRUE, "tick")

KeyHome ==
    /\ pc = "poll"
    /\ \E d \in PollDelays : Handled("Home", d, OnHome(controller), FALSE, TRUE, "tick")

KeyEnd ==
    /\ pc = "poll"
    /\ \E d \in PollDelays : Handled("End", d, OnEnd(controller), FALSE, TRUE, "tick")

\* + or =; taken while fps < MaxFps.
KeyPlus ==
    /\ pc = "poll"
    /\ controller.fps < MaxFps
    /\ \E d \in PollDelays : Handled("Plus", d, OnPlus(controller), TRUE, TRUE, "tick")

\* - or _; taken while fps <= MaxFps.
KeyMinus ==
    /\ pc = "poll"
    /\ controller.fps <= MaxFps
    /\ \E d \in PollDelays : Handled("Minus", d, OnMinus(controller), TRUE, TRUE, "tick")

KeyL ==
    /\ pc = "poll"
    /\ \E d \in PollDelays : Handled("L", d, OnL(controller), FALSE, TRUE, "tick")

\* Any other key, and any other event.
EventOther ==
    /\ pc = "poll"
    /\ \E d \in PollDelays : Handled("Other", d, controller, FALSE, FALSE, "tick")

\* The loop calling step_forward where it calls tick.
OnTickStepsForward(c) == [ctl |-> step_forward(c), changed |-> TRUE]

\* The loop's tick wrapping to the first frame whatever the loop mode.
OnTickWraps(c) ==
    IF c.state = "Playing" /\ c.frame_count > 0 /\ c.current_frame + 1 >= c.frame_count
    THEN [ctl |-> [c EXCEPT !.current_frame = 0], changed |-> TRUE]
    ELSE tick(c)

OnTick(c) == tick(c)

\* The loop catching up after a stall: one tick per elapsed interval, the
\* clock moved on by the intervals used.
RECURSIVE TickStepCatchUp(_, _)
TickStepCatchUp(c, el) ==
    IF TickDue(c, el) /\ el >= 2 * interval_ms(c) /\ interval_ms(c) > 0
    THEN TickStepCatchUp(OnTick(c).ctl, el - interval_ms(c))
    ELSE [ctl |-> OnTick(c).ctl, changed |-> OnTick(c).changed,
          elapsed |-> Max(el - interval_ms(c), 0)]

\* The end of a loop iteration when a tick is due: [ctl, changed, elapsed],
\* the controller, what tick returned and last_tick.elapsed() after it.
TickStep(c, el) ==
    [ctl |-> OnTick(c).ctl, changed |-> OnTick(c).changed, elapsed |-> 0]

\* The loop redrawing after a tick only when the tick moved the frame.
RedrawAfterTickIfChanged(changed) == changed

\* needs_redraw after a tick attempt: set in both branches.
RedrawAfterTick(changed) == TRUE

\* The loop ending once playback has finished.
AfterTickStopsWhenFinished(c) == IF c.state = "Finished" THEN "exit" ELSE "render"

\* Where the loop goes after its tick block: back to its top, whatever the
\* controller's state.
AfterTick(c) == "render"

TickFire ==
    /\ pc = "tick"
    /\ TickDue(controller, elapsed)
    /\ LET t == TickStep(controller, elapsed)
       IN /\ controller' = t.ctl
          /\ elapsed' = t.elapsed
          /\ ticked' = [result |-> IF t.changed THEN "changed" ELSE "unchanged",
                        from |-> controller.current_frame,
                        waited |-> elapsed]
          /\ needs_redraw' = (needs_redraw \/ RedrawAfterTick(t.changed))
          /\ pc' = AfterTick(t.ctl)
    /\ pending' = [i \in 1..Len(pending) |-> TRUE]
    /\ UNCHANGED <<directory, frames, err, rendered, last_event>>

TickSkip ==
    /\ pc = "tick"
    /\ ~TickDue(controller, elapsed)
    /\ pc' = AfterTick(controller)
    /\ UNCHANGED <<directory, frames, err, controller, needs_redraw, elapsed,
                   pending, rendered, last_event, ticked>>

Next ==
    \/ LoadFrames
    \/ StartPlayer
    \/ EnterFails
    \/ TerminalError
    \/ Render
    \/ Arrive
    \/ PollTimeout
    \/ EventResize
    \/ KeyRelease
    \/ KeyQuit
    \/ KeySpace
    \/ KeyRight
    \/ KeyLeft
    \/ KeyHome
    \/ KeyEnd
    \/ KeyPlus
    \/ KeyMinus
    \/ KeyL
    \/ EventOther
    \/ TickFire
    \/ TickSkip

Spec == Init /\ [][Next]_vars

\* Loading alone, over many directories: main up to the player's loop.
InitLoad ==
    /\ directory \in LoadDirs
    /\ frames = <<>>
    /\ err = "none"
    /\ pc = "main"
    /\ controller = Unset
    /\ needs_redraw = FALSE
    /\ elapsed = 0
    /\ pending = <<>>
    /\ rendered = <<>>
    /\ last_event = "none"
    /\ ticked = NoTick

NextLoad ==
    \/ LoadFrames
    \/ StartPlayer
    \/ EnterFails

SpecLoad == InitLoad /\ [][NextLoad]_vars

-----------------------------------------------------------------------------
(* Properties. *)

\* The program is in run_player's loop, or has left it through quit.
InLoop == pc \in {"render", "poll", "tick", "exit"}

LastIndex(c) == c.frame_count - 1

\* C1: once frames are loaded (frame_count > 0), whatever the inputs, the
\* controller's current_frame is in [0, frame_count) and is an index of the
\* loaded frames, set_current_frame(i) leaves it there for every i, and the
\* loop never takes its "current frame index out of bounds" error.
C1_IndexInBounds ==
    /\ err # "IndexOutOfBounds"
    /\ InLoop =>
         /\ controller.frame_count > 0
         /\ controller.current_frame \in 0..LastIndex(controller)
         /\ controller.current_frame < Len(frames)
         /\ \A i \in 0..(MaxFrames + 2) :
               set_current_frame(controller, i).current_frame
                   \in 0..LastIndex(controller)
         /\ OnEnd(controller).current_frame < Len(frames)
         /\ OnRight(controller).current_frame < Len(frames)

\* A step forward was taken at the last index of the longest sequence.
C1_Witness ==
    /\ pc = "tick"
    /\ last_event = "Right"
    /\ rendered # <<>>
    /\ controller.frame_count = MaxFrames
    /\ rendered[1].current_frame = LastIndex(controller)
    /\ controller.current_frame = LastIndex(controller)

\* C2 as stated: the state is Finished only while loop_mode is Once.
C2_FinishedOnlyInOnce ==
    InLoop /\ controller.state = "Finished" => controller.loop_mode = "Once"

\* C2, amended: the state becomes Finished only by the loop's tick, taken
\* while Playing once the frame interval has elapsed, at the last index with
\* loop_mode Once; that tick leaves the index and the loop mode as they are.
C2_FinishedOnlyByLastTick ==
    [][ (InLoop /\ controller.state # "Finished" /\ controller'.state = "Finished")
        => /\ pc = "tick"
           /\ pc' = "render"
           /\ controller.state = "Playing"
           /\ elapsed >= interval_ms(controller)
           /\ controller.loop_mode = "Once"
           /\ controller.current_frame = LastIndex(controller)
           /\ controller' = [controller EXCEPT !.state = "Finished"] ]_vars

\* The loop mode was toggled to Loop while Finished, and the state stayed Finished.
C2_Witness ==
    /\ pc = "tick"
    /\ last_event = "L"
    /\ controller.state = "Finished"
    /\ controller.loop_mode = "Loop"

\* C3: in Once mode a tick taken before the last index advances the index by
\* one, stays Playing and reports a change; the tick at the last index leaves
\* the index, sets Finished and reports no change; once Finished the loop
\* takes no tick, and tick() itself changes nothing and returns false.
C3_OnceRunsToFinished ==
    [][ /\ (pc = "tick" /\ pc' = "render" /\ TickDue(controller, elapsed)
                /\ controller.loop_mode = "Once")
           => IF controller.current_frame < LastIndex(controller)
              THEN /\ controller' = [controller EXCEPT
                                        !.current_frame = controller.current_frame + 1]
                   /\ ticked'.result = "changed"
              ELSE /\ controller' = [controller EXCEPT !.state = "Finished"]
                   /\ ticked'.result = "unchanged"
        /\ (InLoop /\ controller.state = "Finished")
           => /\ OnTick(controller) = [ctl |-> controller, changed |-> FALSE]
              /\ (pc = "tick" => controller' = controller /\ ticked' = ticked) ]_vars

\* The tick at the last index of the longest sequence has set Finished.
C3_Witness ==
    /\ pc = "render"
    /\ controller.frame_count = MaxFrames
    /\ controller.loop_mode = "Once"
    /\ controller.state = "Finished"
    /\ ticked.result = "unchanged"
    /\ ticked.from = LastIndex(controller)
    /\ controller.current_frame = LastIndex(controller)

\* C4: in Loop mode every tick moves the index to the next one, from the
\* last index to 0, and leaves the state Playing; no step taken in Loop mode
\* enters Finished.
C4_LoopCycles ==
    [][ /\ (pc = "tick" /\ pc' = "render" /\ TickDue(controller, elapsed)
                /\ controller.loop_mode = "Loop")
           => /\ controller'.current_frame =
                    (controller.current_frame + 1) % controller.frame_count
              /\ controller'.state = "Playing"
              /\ controller'.loop_mode = "Loop"
        /\ (InLoop /\ controller.loop_mode = "Loop" /\ controller.state # "Finished")
           => controller'.state # "Finished" ]_vars

\* A tick has wrapped from the last index of the longest sequence to 0.
C4_Witness ==
    /\ pc = "render"
    /\ controller.frame_count = MaxFrames
    /\ controller.loop_mode = "Loop"
    /\ controller.state = "Playing"
    /\ ticked.result = "changed"
    /\ ticked.from = LastIndex(controller)
    /\ controller.current_frame = 0

\* The index after one frame step from c: the next index, or from the last
\* index the first one or the last one again.
OneFrameStep(c, d) ==
    \/ d.current_frame = c.current_frame + 1 /\ d.current_frame <= LastIndex(c)
    \/ c.current_frame = LastIndex(c) /\ d.current_frame \in {0, LastIndex(c)}

\* C5: the end of a loop iteration takes one tick when the tick is due,
\* however long ago it fell due, moving the index by one frame step and
\* resetting the tick clock to zero; it takes none when the tick is not due,
\* and the top of the loop takes none.
C5_OneTickPerIteration ==
    [][ /\ (pc = "tick" /\ pc' = "render" /\ TickDue(controller, elapsed))
           => /\ OneFrameStep(controller, controller')
              /\ elapsed' = 0
              /\ ticked'.result # "none"
        /\ (pc = "tick" /\ pc' = "render" /\ ~TickDue(controller, elapsed))
           => controller' = controller /\ elapsed' = elapsed
        /\ pc = "render" => controller' = controller ]_vars

\* A tick taken after a stall of at least two frame intervals moved the
\* index by one.
C5_Witness ==
    /\ pc = "render"
    /\ ticked.result = "changed"
    /\ interval_ms(controller) > 0
    /\ ticked.waited >= 2 * interval_ms(controller)
    /\ controller.current_frame = ticked.from + 1

\* C6: when a tick is about to fire, no event that arrived before that
\* tick's deadline is still unread.
C6_EventsBeforeTick ==
    (pc = "tick" /\ TickDue(controller, elapsed))
        => \A i \in 1..Len(pending) : ~pending[i]

\* C7: from an interior index a step forward then a step backward returns
\* to the index; a step backward at 0 and a step forward at the last index
\* leave the index, however often they are repeated.
C7_StepsInverseAndClamped ==
    InLoop =>
        LET i == controller.current_frame
        IN /\ (0 < i /\ i < LastIndex(controller))
                => OnLeft(OnRight(controller)).current_frame = i
           /\ i = 0
                => /\ OnLeft(controller).current_frame = 0
                   /\ OnLeft(OnLeft(controller)) = OnLeft(controller)
           /\ i = LastIndex(controller)
                => /\ OnRight(controller).current_frame = i
                   /\ OnRight(OnRight(controller)) = OnRight(controller)

\* A step backward was taken from the index a step forward leads to from
\* an interior index.
C7_Witness ==
    /\ pc = "tick"
    /\ last_event = "Left"
    /\ rendered # <<>>
    /\ controller.frame_count >= 3
    /\ rendered[1].current_frame = 2
    /\ controller.current_frame = 1

\* C8: fps is at least 1 after every input, set_fps(v) leaves it at least 1
\* for every v, 0 included, and so does the decrement key at fps 1;
\* interval_ms is in [0, 1000].
C8_FpsPositive ==
    InLoop =>
        /\ controller.fps >= 1
        /\ interval_ms(controller) \in 0..1000
        /\ \A v \in 0..(MaxFps + 1) : set_fps(controller, v).fps >= 1
        /\ set_fps(controller, 0).fps = 1
        /\ OnMinus(controller).fps >= 1
        /\ OnPlus(controller).fps >= 1

\* The decrement key was pressed at fps 1.
C8_Witness ==
    /\ pc = "tick"
    /\ last_event = "Minus"
    /\ rendered # <<>>
    /\ rendered[1].fps = 1
    /\ controller.fps = 1

\* C9: the space key's toggle leaves Paused from Playing, and Playing from
\* Paused and from Finished, at every index and in either loop mode.
C9_ToggleStates ==
    InLoop =>
        \A c \in OnSpace(controller) :
            /\ c.state = IF controller.state = "Playing" THEN "Paused" ELSE "Playing"
            /\ c.loop_mode = controller.loop_mode

\* The space key was pressed while Finished.
C9_Witness ==
    /\ pc = "tick"
    /\ last_event = "Space"
    /\ rendered # <<>>
    /\ rendered[1].state = "Finished"
    /\ controller.state = "Playing"

\* A regular file named *.cframe, in any case.
IsBinaryCandidate(e) ==
    /\ e.kind = "file"
    /\ Len(e.name) > 7
    /\ EqIgnoreAsciiCase(SubSeq(e.name, Len(e.name) - 6, Len(e.name)),
                         <<46>> \o ExtCframe)

\* A regular file named frame_*.txt, the extension in any case.
IsTextCandidate(e) ==
    /\ e.kind = "file"
    /\ Len(e.name) > 4
    /\ StartsWith(e.name, FramePrefix)
    /\ EqIgnoreAsciiCase(SubSeq(e.name, Len(e.name) - 3, Len(e.name)),
                         <<46>> \o ExtTxt)

NoCandidates(dir) ==
    \A i \in 1..Len(dir.entries) :
        ~IsBinaryCandidate(dir.entries[i]) /\ ~IsTextCandidate(dir.entries[i])

\* C10: loading a directory with neither binary nor text candidate files
\* fails with NoFrames; a load that succeeds returns at least one frame; and
\* the player's loop is entered only with at least one frame.
C10_NoFramesNotEmpty ==
    /\ (pc # "main" /\ directory.exists /\ NoCandidates(directory))
           => pc = "failed" /\ err = "NoFrames"
    /\ pc \in {"start", "render"} => frames # <<>>
    /\ err # "NoFramesToDisplay"

\* A directory that holds entries, none of them a candidate, was refused.
C10_Witness ==
    /\ pc = "failed"
    /\ err = "NoFrames"
    /\ directory.exists
    /\ Len(directory.entries) >= 2

\* The positions of the directory's binary and text candidates.
BinaryFiles(dir) == {i \in 1..Len(dir.entries) : IsBinaryCandidate(dir.entries[i])}

TextFiles(dir) == {i \in 1..Len(dir.entries) : IsTextCandidate(dir.entries[i])}

\* load_frames has returned a sequence.
Loaded == pc \in {"start", "render"}

\* C11: when the directory holds at least one binary file, a load that
\* returns a sequence returns one frame per binary file, each with the text
\* and the color grid decoded from that file's bytes, and no frame carries
\* the content of a text file.
C11_BinaryOnly ==
    (Loaded /\ BinaryFiles(directory) # {}) =>
        /\ Len(frames) = Cardinality(BinaryFiles(directory))
        /\ \A i \in BinaryFiles(directory) :
              \E k \in 1..Len(frames) :
                 /\ frames[k].content = parse_cframe_text(directory.entries[i].data)
                 /\ frames[k].cframe = parse_cframe(directory.entries[i].data)
        /\ \A k \in 1..Len(frames), j \in TextFiles(directory) :
              /\ frames[k].content # directory.entries[j].data
              /\ frames[k].content # normalize_frame_text(directory.entries[j].data)

\* Two binary files and a text file were listed, and the load returned two
\* frames.
C11_Witness ==
    /\ pc = "start"
    /\ Cardinality(BinaryFiles(directory)) = 2
    /\ TextFiles(directory) # {}
    /\ Len(frames) = 2

\* The name a text file's binary sibling has: its stem with .cframe.
SiblingName(name) == SubSeq(name, 1, Len(name) - 4) \o <<46>> \o ExtCframe

\* The frame k was built from the text file at position j: its text is that
\* file's content, as it is or with a line terminator added, and its color
\* grid is the one decoded from the sibling when the sibling exists.
PairedWith(k, j) ==
    LET t == directory.entries[j]
        sibling == SiblingName(t.name)
    IN /\ frames[k].content \in {t.data, t.data \o <<10>>}
       /\ IF Exists(directory, sibling)
          THEN /\ frames[k].cframe # <<>>
               /\ frames[k].cframe = parse_cframe(Lookup(directory, sibling).data)
               /\ frames[k].content # parse_cframe_text(Lookup(directory, sibling).data)
          ELSE frames[k].cframe = <<>>

\* C12: when the text sequence is used (no binary file was collected) and
\* the load returns, every text file has its frame, with the text file's
\* content as text and, when a .cframe of the same stem exists, that file's
\* color grid.
C12_PairedTextFromTextFile ==
    (Loaded /\ BinaryFiles(directory) = {}) =>
        /\ Len(frames) = Cardinality(TextFiles(directory))
        /\ \A j \in TextFiles(directory) : \E k \in 1..Len(frames) : PairedWith(k, j)

\* A text file was loaded with the color grid of a same-stem .cframe.
C12_Witness ==
    /\ pc = "start"
    /\ BinaryFiles(directory) = {}
    /\ \E j \in TextFiles(directory) :
          /\ Exists(directory, SiblingName(directory.entries[j].name))
          /\ \E k \in 1..Len(frames) :
                PairedWith(k, j) /\ frames[k].cframe # <<>>

\* The sort key of the entry at position i: the value of the trailing
\* digits of its stem, or its position in the listing counted from 0.
IndexOf(dir, i) == extract_index(FileStem(dir.entries[i].name), i - 1)

\* The position in the listing of the entry of a name.
PositionOf(dir, name) == CHOOSE i \in 1..Len(dir.entries) : dir.entries[i].name = name

\* paths holds each kept entry once and nothing else, and each path comes
\* strictly before the next: a smaller index, or the same index and a
\* smaller name.
SortedCollection(dir, paths, extension, require_frame_prefix) ==
    /\ \A i \in 1..Len(dir.entries) :
          KeepsEntry(dir.entries[i], extension, require_frame_prefix)
              <=> \E k \in 1..Len(paths) : paths[k] = dir.entries[i].name
    /\ \A k \in 1..Len(paths) : Exists(dir, paths[k])
    /\ \A k \in 1..Len(paths), l \in 1..Len(paths) :
          k < l =>
             LET a == PositionOf(dir, paths[k])
                 b == PositionOf(dir, paths[l])
             IN \/ IndexOf(dir, a) < IndexOf(dir, b)
                \/ IndexOf(dir, a) = IndexOf(dir, b) /\ StrLess(paths[k], paths[l])

\* C13: collect_frame_paths returns the matching files in a strict order,
\* by index and then by name, and a load of binary files returns their
\* frames in that order.
C13_SortedByIndexThenName ==
    (pc # "main" /\ directory.exists) =>
        LET bin == collect_frame_paths(directory, ExtCframe, FALSE)
            txt == collect_frame_paths(directory, ExtTxt, TRUE)
        IN /\ bin.ok /\ txt.ok
           /\ SortedCollection(directory, bin.paths, ExtCframe, FALSE)
           /\ SortedCollection(directory, txt.paths, ExtTxt, TRUE)
           /\ (Loaded /\ bin.paths # <<>>) =>
                 /\ Len(frames) = Len(bin.paths)
                 /\ \A k \in 1..Len(frames) :
                       frames[k] = CframeFrame(Lookup(directory, bin.paths[k]).data)

\* frame_2, frame_10 and frame_1 were listed in that order and loaded in
\* the order 1, 2, 10.
C13_Witness ==
    /\ pc = "start"
    /\ Len(directory.entries) = 3
    /\ directory.entries[1].name = FramePrefix \o <<50, 46>> \o ExtCframe
    /\ directory.entries[2].name = FramePrefix \o <<49, 48, 46>> \o ExtCframe
    /\ directory.entries[3].name = FramePrefix \o <<49, 46>> \o ExtCframe
    /\ frames = <<CframeFrame(directory.entries[3].data),
                  CframeFrame(directory.entries[1].data),
                  CframeFrame(directory.entries[2].data)>>

\* A text without the line terminators it ends with.
RECURSIVE StripTerminators(_)
StripTerminators(text) ==
    IF EndsWith(text, <<10>>) THEN StripTerminators(SubSeq(text, 1, Len(text) - 1))
    ELSE text

\* The text ends with one line terminator and not with two.
EndsWithOneTerminator(text) == EndsWith(text, <<10>>) /\ ~EndsWith(text, <<10, 10>>)

\* C14: the content of every frame loaded from the text files ends with
\* exactly one line terminator, and every text file has a frame whose
\* content is the file's up to the line terminators at its end.
C14_ExactlyOneTerminator ==
    (Loaded /\ BinaryFiles(directory) = {}) =>
        /\ \A k \in 1..Len(frames) : EndsWithOneTerminator(frames[k].content)
        /\ \A j \in TextFiles(directory) :
              \E k \in 1..Len(frames) :
                 StripTerminators(frames[k].content)
                     = StripTerminators(directory.entries[j].data)

\* The file at position i is one load_frames cannot read or decode.
BadBinary(dir, i) ==
    LET e == dir.entries[i]
    IN ~e.readable \/ parse_cframe(e.data) = <<>>

BadText(dir, j) ==
    LET t == dir.entries[j]
        sibling == SiblingName(t.name)
    IN \/ ~t.readable
       \/ \E b \in 1..Len(t.data) : t.data[b] >= 128
       \/ /\ Exists(dir, sibling)
          /\ LET c == Lookup(dir, sibling)
             IN c.kind = "dir" \/ ~c.readable \/ parse_cframe(c.data) = <<>>

\* The files the load reads: the binary files when there are any, and the
\* text files otherwise.
SomeFileFails(dir) ==
    IF BinaryFiles(dir) # {}
    THEN \E i \in BinaryFiles(dir) : BadBinary(dir, i)
    ELSE \E j \in TextFiles(dir) : BadText(dir, j)

\* Some file the load reads has a grid that does not decode.
SomeFileMalformed(dir) ==
    IF BinaryFiles(dir) # {}
    THEN \E i \in BinaryFiles(dir) : parse_cframe(dir.entries[i].data) = <<>>
    ELSE \E j \in TextFiles(dir) :
            LET sibling == SiblingName(dir.entries[j].name)
            IN /\ Exists(dir, sibling)
               /\ parse_cframe(Lookup(dir, sibling).data) = <<>>

\* C16: when one of the files the load reads cannot be read or decoded,
\* the load has failed with a read or a format error (a format error only
\* with a file that does not decode), no frame is kept and the player is
\* never started.
C16_NoPartialLoad ==
    (pc # "main" /\ directory.exists /\ SomeFileFails(directory)) =>
        /\ pc = "failed"
        /\ err \in {"Io", "Format"}
        /\ err = "Format" => SomeFileMalformed(directory)
        /\ ~SomeFileMalformed(directory) => err = "Io"
        /\ frames = <<>>
        /\ controller = Unset
        /\ rendered = <<>>

\* A load failed on a malformed binary file that sorts after a good one.
C16_Witness ==
    /\ pc = "failed"
    /\ err = "Format"
    /\ \E i, j \in BinaryFiles(directory) :
          /\ ~BadBinary(directory, i)
          /\ BadBinary(directory, j)
          /\ IndexOf(directory, i) < IndexOf(directory, j)

\* The program is inside run_player's loop.
Running == pc \in {"render", "poll", "tick"}

\* C15 as claimed: the loop is left only by reading a quit input, and a
\* quit input read leaves it in that iteration.
C15_EndsOnlyOnQuit ==
    [][/\ (Running /\ pc' \notin {"render", "poll", "tick"})
              => pc = "poll" /\ last_event' = "Quit" /\ pc' = "exit"
       /\ (pc = "poll" /\ last_event' = "Quit") => pc' = "exit"]_vars

\* C15: the loop is left either by reading a quit input, which ends it in
\* that iteration whatever the controller's state, or by the error of a
\* terminal call; a tick, a timeout, a resize, a key release and every other
\* key keep the loop running, and once left it is not entered again.
C15_EndsOnQuitOrTerminalError ==
    [][/\ (Running /\ pc' \notin {"render", "poll", "tick"})
              => \/ pc = "poll" /\ last_event' = "Quit" /\ pc' = "exit" /\ err' = err
                 \/ pc' = "failed" /\ err' = "Terminal" /\ last_event' = last_event
       /\ (pc = "poll" /\ last_event' = "Quit") => pc' = "exit"
       /\ (pc = "poll" /\ last_event' \notin {"Quit", last_event}) => pc' \in {"render", "tick"}
       /\ pc = "tick" => pc' \in {"render", "tick"}
       /\ pc \in {"exit", "failed"} => pc' = pc]_vars

\* A quit input was read while the controller was Finished, after the loop
\* had drawn that state and gone on waiting.
C15_Witness ==
    /\ pc = "exit"
    /\ last_event = "Quit"
    /\ controller.state = "Finished"
    /\ rendered # <<>>
    /\ rendered[1].state = "Finished"

\* C17: the arms for the step and jump keys change nothing of the
\* controller but current_frame, the arms for the fps keys nothing but fps,
\* and the arm for the loop-mode key changes loop_mode and nothing else, in
\* every state of the controller.
C17_OwnFieldOnly ==
    [][pc = "poll" =>
          /\ last_event' \in {"Right", "Left", "Home", "End"}
                => controller' = [controller EXCEPT
                                     !.current_frame = controller'.current_frame]
          /\ last_event' \in {"Plus", "Minus"}
                => controller' = [controller EXCEPT !.fps = controller'.fps]
          /\ last_event' = "L"
                => /\ controller' = [controller EXCEPT
                                        !.loop_mode = controller'.loop_mode]
                   /\ controller'.loop_mode # controller.loop_mode]_vars

\* The loop-mode key was read while the controller was Finished past the
\* first frame: the index and the state are the ones last drawn, the loop
\* mode is not.
C17_Witness ==
    /\ pc = "tick"
    /\ last_event = "L"
    /\ controller.state = "Finished"
    /\ controller.current_frame > 0
    /\ rendered # <<>>
    /\ rendered[1].state = "Finished"
    /\ rendered[1].current_frame = controller.current_frame
    /\ rendered[1].loop_mode # controller.loop_mode

\* The tick block has called tick() in this step.
TickTaken == pc = "tick" /\ ticked' # ticked

\* The space key was read in this iteration with Finished, Once and the
\* last index drawn: toggle has left Finished at the last index.
ResumedAtEnd ==
    /\ last_event = "Space"
    /\ rendered # <<>>
    /\ rendered[1].state = "Finished"
    /\ rendered[1].loop_mode = "Once"
    /\ rendered[1].current_frame = LastIndex(controller)

\* C18 as claimed: toggle at Finished on the last index under Once sets
\* Playing, and the next tick moves the index and does not return to
\* Finished.
C18_ResumeRestartsProgression ==
    [][/\ (/\ pc = "poll"
           /\ last_event' = "Space"
           /\ controller.state = "Finished"
           /\ controller.loop_mode = "Once"
           /\ controller.current_frame = LastIndex(controller))
              => controller'.state = "Playing"
       /\ (TickTaken /\ ResumedAtEnd)
              => /\ controller'.current_frame # controller.current_frame
                 /\ controller'.state = "Playing"]_vars

\* C18: toggle at Finished sets Playing, changes nothing else but possibly
\* the index, which stays or goes back to the first frame; a tick taken
\* under Once with the index still at the last frame leaves it there and
\* returns to Finished, and a tick taken before the last frame advances by
\* one and stays Playing.
C18_ResumeThenTick ==
    [][/\ (pc = "poll" /\ last_event' = "Space" /\ controller.state = "Finished")
              => controller' \in {[controller EXCEPT !.state = "Playing"],
                                  [controller EXCEPT !.state = "Playing",
                                                     !.current_frame = 0]}
       /\ (TickTaken /\ controller.loop_mode = "Once")
              => /\ controller.state = "Playing"
                 /\ IF controller.current_frame = LastIndex(controller)
                    THEN /\ controller' = [controller EXCEPT !.state = "Finished"]
                         /\ ticked'.result = "unchanged"
                    ELSE /\ controller' = [controller EXCEPT
                                  !.current_frame = controller.current_frame + 1]
                         /\ ticked'.result = "changed"]_vars

\* Toggle left Finished at the last index and the tick of the same
\* iteration went back to Finished without moving the index.
C18_Witness ==
    /\ pc = "render"
    /\ ResumedAtEnd
    /\ ticked.result = "unchanged"
    /\ ticked.from = LastIndex(controller)
    /\ controller.state = "Finished"
    /\ controller.current_frame = LastIndex(controller)

NotPlaying(c) == c.state \in {"Paused", "Finished"}

C20_DrawnBeforeWait ==
    /\ pc = "poll" => ~needs_redraw /\ rendered = <<Status(controller)>>
    /\ (Running /\ ~needs_redraw) => rendered = <<Status(controller)>>
    /\ (pc = "render" /\ ticked.result # "none") => needs_redraw

\* The loop waits with Finished drawn after the tick that finished playback
\* reported no change.
C20_Witness ==
    /\ pc = "poll"
    /\ controller.state = "Finished"
    /\ controller.loop_mode = "Once"
    /\ controller.current_frame = LastIndex(controller)
    /\ rendered = <<Status(controller)>>
    /\ last_event = "none"

====
